---- MODULE Spec2Model ----
(***************************************************************************)
(* Model of tutorial/2_data_prep.ipynb: conditioning of the observed       *)
(* waveforms (cells 2-4 of the code) and generation of the synthetic       *)
(* Green's functions (cell 5), followed by the manifest header (cell 6).   *)
(*                                                                         *)
(* Times are integers counted in clock ticks, TicksPerSec ticks to the     *)
(* second.  A trace's samples are not modelled by value but by origin:     *)
(* 1 marks a sample that derives from the recording, 0 a sample that was   *)
(* written by the padding of trim (fill_value=0).  The array of samples is *)
(* kept run-length encoded: [v |-> m, n |-> c] is c consecutive samples    *)
(* marked m, and no two neighbouring runs carry the same mark.             *)
(***************************************************************************)
EXTENDS Integers, Sequences, FiniteSets, TLC

\* ------------------------------------------------------------------ bounds
\* resolution of the clock (ticks per second)
TicksPerSec == 2
\* number of failures (engine exit codes, I/O errors) the environment injects
MaxFailures == 1

\* ------------------------------------------------------- program constants
dt == 1
time_before == 30
time_after == 200
freqmin == 2
freqmax == 5
corners == 3
t0 == 0
AuxDepthA == 10
AuxDepthB == 20
UnitScale == 100

greens == <<"ZDD", "RDD", "ZDS", "RDS", "TDS", "ZSS", "RSS", "TSS", "ZEX", "REX">>

\* ------------------------------------------------------------ environment
\* rows of station.csv (distance in hundredths of a km)
StationRows ==
  << [network |-> "BK", station |-> "QRDG", location |-> "00", channel |-> "BH",
      component |-> "Z", distance |-> 8099],
     [network |-> "BK", station |-> "FARB", location |-> "", channel |-> "HH",
      component |-> "T", distance |-> 11046] >>
\* the station tables the run may find: the first rows of StationRows
StationTables == { SubSeq(StationRows, 1, k) : k \in 1..Len(StationRows) }

\* origin times of datetime.csv (ticks)
OriginInputs == {1001}
\* catalog depths of datetime.csv, in tenths of a km
DepthInputs == {105, 136, 196}
\* reduction velocities the user may set in the parameter cell (km/s)
VredInputs == {0, 3}
\* numbers of points the user may set for the FK computation
NptsInputs == {250, 256}
\* recordings on disk: start relative to the origin time (ticks), number of
\* samples, sampling rate as the fraction num/den (Hz)
TraceInputs ==
  { [start |-> -180, n |-> 1200, num |-> 2, den |-> 1],
    [start |-> -21,  n |-> 25,   num |-> 5, den |-> 2],
    [start |-> 1500, n |-> 10,   num |-> 1, den |-> 1] }

\* iterations of the loop over the ten components after which the
\* environment may make a read or write raise
FailAfter == {0, 4}

NoValue == <<>>

VARIABLES
  pc,        \* position in the notebook
  df,        \* event table (origin, depth10) once read
  station_df,\* station table once read
  st,        \* the Stream of observed traces
  vred, p,   \* reduction velocity and slowness (a fraction <<num, den>>)
  tr,        \* index in st of the trace the name tr is bound to (0: unbound)
  outfiles,  \* files {outdir}/{net.sta.loc}.{comp}.dat : name -> trace
  depths, npts,       \* depth list, number of points
  di, si,    \* indices of the depth loop and of its station loop
  dfile,     \* {event_dir}/dfile: <<>> when absent, else <<content>>
  hspecdat, hspecgrn, file96, \* working files of the FK engine, likewise
  bfiles,    \* unfiltered B*.sac files : name -> trace
  green,     \* files of green_dir : name -> trace
  log,       \* history: the stages executed, in order
  failures,  \* number of failures injected so far
  headers    \* headers['depth'] once built

vars == << pc, df, station_df, st, vred, p, tr, outfiles, depths, npts, di,
           si, dfile, hspecdat, hspecgrn, file96, bfiles, green, log, failures,
           headers >>

obsVars == << st, vred, p, tr, outfiles >>
engVars == << dfile, hspecdat, hspecgrn, file96, bfiles >>
loopVars == << depths, npts, di, si >>

\* -------------------------------------------------------------- arithmetic
\* obspy.core.compatibility.round_away of n/d, d > 0
RoundAway(n, d) ==
  IF n >= 0 THEN (2 * n + d) \div (2 * d)
            ELSE -((2 * (-n) + d) \div (2 * d))

\* Python round() of n/d to an integer (ties to even), d > 0
PyRound(n, d) ==
  LET q == n \div d
      r == n - q * d
  IN  IF 2 * r < d THEN q
      ELSE IF 2 * r > d THEN q + 1
      ELSE IF q % 2 = 0 THEN q ELSE q + 1

\* ceil(n/d) for n >= 0, d > 0
CeilDiv(n, d) == (n + d - 1) \div d

Max(a, b) == IF a >= b THEN a ELSE b
Min(a, b) == IF a <= b THEN a ELSE b

\* ------------------------------------------------- arrays of samples
\* number of samples of the first k runs, and of the array
RECURSIVE DLenTo(_, _)
DLenTo(d, k) == IF k = 0 THEN 0 ELSE DLenTo(d, k - 1) + d[k].n
DLen(d) == DLenTo(d, Len(d))

\* the encoding without empty runs and with equal neighbours merged
RECURSIVE DNorm(_)
DNorm(d) ==
  IF d = <<>> THEN <<>>
  ELSE LET r == DNorm(Tail(d))
           h == Head(d)
       IN  IF h.n <= 0 THEN r
           ELSE IF r # <<>> /\ Head(r).v = h.v
             THEN << [v |-> h.v, n |-> h.n + Head(r).n] >> \o Tail(r)
             ELSE << h >> \o r

\* numpy.zeros(n) + m
Filled(m, n) == DNorm(<< [v |-> m, n |-> n] >>)
Ones(n) == Filled(1, n)
Zeros(n) == Filled(0, n)

\* numpy.concatenate((a, b))
DConcat(a, b) == DNorm(a \o b)

\* data[from-1 : to], the samples from..to counted from 1
DSlice(d, from, to) ==
  DNorm([k \in 1..Len(d) |->
           [v |-> d[k].v,
            n |-> Min(to, DLenTo(d, k)) - Max(from, DLenTo(d, k - 1) + 1) + 1]])

\* data[::f], every f-th sample starting with the first
DStride(d, f) ==
  DNorm([k \in 1..Len(d) |->
           [v |-> d[k].v,
            n |-> IF d[k].n = 0 THEN 0
                  ELSE ((DLenTo(d, k) - 1) \div f)
                       - CeilDiv(DLenTo(d, k - 1), f) + 1]])

\* c * data
DScale(d, c) == [k \in 1..Len(d) |-> [v |-> c * d[k].v, n |-> d[k].n]]

\* no sample of the array derives from the recording
AllFill(d) == \A k \in 1..Len(d) : d[k].v = 0

\* ------------------------------------------------------- obspy operations
\* read('...SAC'): one trace of a station row from a recording on disk; span
\* keeps the times of the first and last sample of the recording as read
ReadSac(row, rec, origin) ==
  [ id |-> [network |-> row.network, station |-> row.station,
            location |-> row.location, channel |-> row.channel,
            component |-> row.component],
    src |-> <<"obs", row.station, row.component>>,
    starttime |-> origin + rec.start,
    span |-> << origin + rec.start,
                origin + rec.start + ((rec.n - 1) * rec.den * TicksPerSec) \div rec.num >>,
    rate |-> <<rec.num, rec.den>>,
    data |-> Ones(rec.n),
    dist |-> row.distance,
    t1 |-> NoValue, b |-> NoValue, o |-> NoValue,
    nfilt |-> 0, band |-> NoValue, tapered |-> FALSE, scale |-> 1 ]

\* Trace.filter('bandpass', ..., zerophase=True)
Bandpass(t) ==
  [t EXCEPT !.nfilt = @ + 1, !.band = <<freqmin, freqmax, corners, TRUE>>]

\* Trace.taper(max_percentage=0.05)
Taper(t) == [t EXCEPT !.tapered = TRUE]

\* Trace.decimate(factor, strict_length=False, no_filter=True):
\* data[::factor], sampling rate divided by factor
Decimate(t, factor) ==
  [t EXCEPT !.data = DStride(t.data, factor),
            !.rate = <<t.rate[1], t.rate[2] * factor>>]

\* Trace.resample(1/dt, strict_length=False, no_filter=True):
\* num = int(npts / (old rate / new rate)) samples at the new rate
Resample(t) ==
  LET num == (DLen(t.data) * t.rate[2]) \div (t.rate[1] * dt)
  IN  [t EXCEPT !.data = Ones(num), !.rate = <<1, dt>>]

\* (x - y) * sampling_rate as the fraction <<numerator, denominator>>
InSamples(t, ticks) == << ticks * t.rate[1], t.rate[2] * TicksPerSec >>
\* k * delta in ticks
SampleTicks(t, k) == (k * t.rate[2] * TicksPerSec) \div t.rate[1]

\* Trace._ltrim(starttime, pad, nearest_sample=True, fill_value)
LTrim(t, start, pad) ==
  LET x == InSamples(t, start - t.starttime)
      d0 == RoundAway(x[1], x[2])
      np == (-d0) + 10
      y == InSamples(t, start - (t.starttime - SampleTicks(t, np)))
      delta == IF d0 < 0 /\ pad THEN RoundAway(y[1], y[2]) - np ELSE d0
      moved == IF delta > 0 \/ pad
                 THEN [t EXCEPT !.starttime = @ + SampleTicks(t, delta)]
                 ELSE t
  IN  IF delta = 0 \/ (delta < 0 /\ ~pad) THEN moved
      ELSE IF delta < 0 THEN [moved EXCEPT !.data = DConcat(Zeros(-delta), @)]
      ELSE [moved EXCEPT !.data = DSlice(@, delta + 1, DLen(@))]

\* Trace._rtrim(endtime, pad, nearest_sample=True, fill_value)
RTrim(t, end, pad) ==
  LET x == InSamples(t, end - t.starttime)
      delta == RoundAway(x[1], x[2]) - DLen(t.data) + 1
      total == IF end = t.starttime THEN 1 ELSE DLen(t.data) + delta
  IN  IF delta = 0 \/ (delta > 0 /\ ~pad) THEN t
      ELSE IF delta > 0 THEN [t EXCEPT !.data = DConcat(@, Zeros(delta))]
      ELSE IF end < t.starttime
        THEN [t EXCEPT !.starttime = @ + SampleTicks(t, DLen(t.data) - 1 + delta),
                       !.data = <<>>]
      ELSE [t EXCEPT !.data = DSlice(@, 1, total)]

\* trim that never pads
TrimNoPad(t, start, end, pad) == RTrim(LTrim(t, start, FALSE), end, FALSE)

\* Trace.trim(starttime, endtime, pad, fill_value=0)
Trim(t, start, end, pad) == RTrim(LTrim(t, start, pad), end, pad)

\* origin_time + p*(tr.stats.sac.dist): UTCDateTime + seconds, rounded to
\* the resolution of the clock (dist in hundredths of a km)
ReferenceTime(origin, slow, dist) ==
  origin + PyRound(slow[1] * dist * TicksPerSec, slow[2] * 100)

\* slowness set to the velocity itself
SlownessNotInverted(v) == <<v, 1>>

\* if vred: p = 1/vred else: p = 0
Slowness(v) == IF v # 0 THEN <<1, v>> ELSE <<0, 1>>

\* '%s/%s.%s.dat' % (outdir, tr.id[:-4], tr.id[-1])
DatName(id) == << <<id.network, id.station, id.location>>, id.component, "dat" >>

\* body of the loop "for tr in st" of the conditioning cell
Condition(t, origin, slow) ==
  LET factor == (t.rate[1] * dt) \div t.rate[2]
      t2 == Resample(Decimate(t, factor))
      ref == ReferenceTime(origin, slow, t2.dist)
      t3 == Trim([t2 EXCEPT !.t1 = ref],
                 ref - time_before * TicksPerSec,
                 ref + time_after * TicksPerSec, TRUE)
  IN  [t3 EXCEPT !.scale = UnitScale * @,
                 !.data = DScale(t3.data, UnitScale),
                 !.b = -(origin - t3.starttime),
                 !.o = 0]

\* ------------------------------------------------------------------ cells
Init ==
  /\ pc = "read_tables"
  /\ df = NoValue
  /\ station_df = <<>>
  /\ st = <<>>
  /\ vred = 0 /\ p = NoValue
  /\ tr = 0
  /\ outfiles = <<>>
  /\ depths = <<>> /\ npts = 0 /\ di = 0 /\ si = 0
  /\ dfile = <<>> /\ hspecdat = <<>> /\ hspecgrn = <<>>
  /\ file96 = <<>>
  /\ bfiles = <<>>
  /\ green = <<>>
  /\ log = <<>>
  /\ failures = 0
  /\ headers = NoValue

\* pd.read_csv of the event and station tables
ReadTables ==
  /\ pc = "read_tables"
  /\ \E origin \in OriginInputs, d \in DepthInputs :
       df' = [origin |-> origin, depth10 |-> d]
  /\ \E table \in StationTables : station_df' = table
  /\ pc' = "read_traces"
  /\ UNCHANGED << obsVars, loopVars, engVars, green, log, failures, headers >>

\* one iteration of "for _,row in station_df.iterrows(): st += read(...)"
ReadTrace ==
  /\ pc = "read_traces"
  /\ Len(st) < Len(station_df)
  /\ \E rec \in TraceInputs :
       st' = Append(st, ReadSac(station_df[Len(st) + 1], rec, df.origin))
  /\ UNCHANGED << pc, df, station_df, vred, p, tr, outfiles, loopVars,
                  engVars, green, log, failures, headers >>

\* parameter cell, slowness, st.filter and st.taper
FilterTaper ==
  /\ pc = "read_traces"
  /\ Len(st) = Len(station_df)
  /\ \E v \in VredInputs : vred' = v /\ p' = Slowness(v)
  /\ st' = [k \in 1..Len(st) |-> Taper(Bandpass(st[k]))]
  /\ pc' = "condition"
  /\ UNCHANGED << df, station_df, tr, outfiles, loopVars, engVars,
                  green, log, failures, headers >>

\* one iteration of "for tr in st"
ConditionTrace ==
  /\ pc = "condition"
  /\ tr < Len(st)
  /\ LET k == tr + 1
         out == Condition(st[k], df.origin, p)
     IN  /\ tr' = k
         /\ st' = [st EXCEPT ![k] = out]
         /\ outfiles' = (DatName(out.id) :> out) @@ outfiles
  /\ UNCHANGED << pc, df, station_df, vred, p, loopVars, engVars,
                  green, log, failures, headers >>

\* ---------------------------------------------------- Green's functions
\* sorted(list) of Python, by insertion
RECURSIVE Sorted(_)
Sorted(s) ==
  IF Len(s) <= 1 THEN s
  ELSE LET rest == Sorted(Tail(s))
           x == Head(s)
           k == Cardinality({j \in 1..Len(rest) : rest[j] < x})
       IN  SubSeq(rest, 1, k) \o <<x>> \o SubSeq(rest, k + 1, Len(rest))

\* sorted([10,20,round(df['depth'][0])])
DepthList(depth10) == Sorted(<<AuxDepthA, AuxDepthB, PyRound(depth10, 10)>>)

\* '%.4f' % d for an integer d: integer part and four decimals
Fmt4f(d) == <<d, 0>>
\* '{:.0f}' of a distance given in hundredths
Fmt0f(d100) == PyRound(d100, 100)

\* the lines written to dfile: one per station row
DfileLines(stations, n, v) ==
  [k \in 1..Len(stations) |->
     [dist |-> Fmt0f(stations[k].distance), dt |-> dt * 100, npts |-> n,
      t0 |-> t0, vred |-> v * 10]]

\* file name that leaves the depth out
GreenNameNoDepth(row, depth, grn) ==
  << row.network, row.station, row.location, Fmt4f(0), grn >>

\* names of the files of green_dir:
\* '%s/%s.%s.%s.%.4f' % (green_dir, network, station, location, depth) + '.' + grn
GreenName(row, depth, grn) ==
  << row.network, row.station, row.location, Fmt4f(depth), grn >>

\* the unfiltered trace f96tosac -B writes for line k of the distance file
\* and component j of a multiplexed file
RawSynthetic(f96, k, j) ==
  [ src |-> <<"syn", f96.dfile[k].dist, f96.depth, greens[j]>>,
    nfilt |-> 0, band |-> NoValue, scale |-> 1, npts |-> f96.dfile[k].npts ]

\* B{station:03d}{component:02d}{name}.sac
BName(k, j) == <<"B", k, j, greens[j]>>

\* the file the filter loop reads: sacin of the loop body
Sacin == DatName(st[tr].id)

\* the files written by the first nOk iterations of "for j,grn in
\* enumerate(greens)" for one station row
Filtered(row, depth, nOk) ==
  [ name \in {GreenName(row, depth, greens[j]) : j \in 1..nOk} |->
      Bandpass(outfiles[Sacin]) ]

\* an exit code, or the outcome of an I/O operation: a program whose input
\* file is absent fails; otherwise the environment chooses, and a failure it
\* chooses counts against MaxFailures
Outcome(rc, inputOk) ==
  IF inputOk THEN rc = 0 \/ failures < MaxFailures ELSE rc # 0
Count(rc, inputOk) ==
  failures' = IF rc # 0 /\ inputOk THEN failures + 1 ELSE failures
Logged(stage, rc) ==
  log' = Append(log, [job |-> di, depth |-> depths[di], stage |-> stage, rc |-> rc])

\* model, depths, npts, t0, green_dir
StartGreens ==
  /\ pc = "condition"
  /\ tr = Len(st)
  /\ depths' = DepthList(df.depth10)
  /\ \E n \in NptsInputs : npts' = n
  /\ di' = 1 /\ si' = 0
  /\ pc' = "dfile"
  /\ UNCHANGED << df, station_df, obsVars, engVars, green, log, failures, headers >>

\* "for depth in depths": the distance file of one depth
WriteDfile ==
  /\ pc = "dfile"
  /\ di <= Len(depths)
  /\ dfile' = << DfileLines(station_df, npts, vred) >>
  /\ pc' = "prepare"
  /\ UNCHANGED << df, station_df, obsVars, loopVars, hspecdat, hspecgrn, file96,
                  bfiles, green, log, failures, headers >>

\* os.system('hprep96 -M model.d -d dfile -HS depth -HR 0 -EQEX')
Hprep ==
  /\ pc = "prepare"
  /\ \E rc \in {0, 1} :
       /\ Outcome(rc, dfile # <<>>)
       /\ hspecdat' = IF rc = 0
                        THEN << [model |-> "gil7", dfile |-> dfile[1],
                                 depth |-> Fmt4f(depths[di])] >>
                        ELSE hspecdat
       /\ Count(rc, dfile # <<>>) /\ Logged("prepare", rc)
  /\ pc' = "spectrum"
  /\ UNCHANGED << df, station_df, obsVars, loopVars, dfile, hspecgrn, file96,
                  bfiles, green, headers >>

\* os.system('hspec96')
Hspec ==
  /\ pc = "spectrum"
  /\ \E rc \in {0, 1} :
       /\ Outcome(rc, hspecdat # <<>>)
       /\ hspecgrn' = IF rc = 0 THEN hspecdat ELSE hspecgrn
       /\ Count(rc, hspecdat # <<>>) /\ Logged("spectrum", rc)
  /\ pc' = "pulse"
  /\ UNCHANGED << df, station_df, obsVars, loopVars, dfile, hspecdat, file96,
                  bfiles, green, headers >>

\* os.system('hpulse96 -D -i > file96'): the shell truncates file96
Hpulse ==
  /\ pc = "pulse"
  /\ \E rc \in {0, 1} :
       /\ Outcome(rc, hspecgrn # <<>>)
       /\ file96' = IF rc = 0 THEN hspecgrn ELSE <<>>
       /\ Count(rc, hspecgrn # <<>>) /\ Logged("pulse", rc)
  /\ pc' = "demux"
  /\ UNCHANGED << df, station_df, obsVars, loopVars, dfile, hspecdat, hspecgrn,
                  bfiles, green, headers >>

\* os.system('f96tosac -B file96')
F96tosac ==
  /\ pc = "demux"
  /\ \E rc \in {0, 1} :
       /\ Outcome(rc, file96 # <<>>)
       /\ bfiles' = IF rc = 0
                      THEN [ name \in {BName(k, j) : k \in 1..Len(file96[1].dfile),
                                                     j \in 1..Len(greens)} |->
                               RawSynthetic(file96[1], name[2], name[3]) ] @@ bfiles
                      ELSE bfiles
       /\ Count(rc, file96 # <<>>) /\ Logged("demux", rc)
  /\ pc' = "filter" /\ si' = 1
  /\ UNCHANGED << df, station_df, obsVars, depths, npts, di, dfile, hspecdat,
                  hspecgrn, file96, green, headers >>

\* one iteration of "for index,row in station_df.iterrows()": the ten
\* read/filter/write of a station; an I/O error in iteration nOk + 1 raises
\* and ends the cell
FilterStation ==
  /\ pc = "filter"
  /\ si <= Len(station_df)
  /\ \E nOk \in FailAfter \cup {Len(greens)} :
       LET rc == IF nOk = Len(greens) THEN 0 ELSE 1
       IN  /\ Outcome(rc, Sacin \in DOMAIN outfiles)
           /\ green' = Filtered(station_df[si], depths[di], nOk) @@ green
           /\ Count(rc, Sacin \in DOMAIN outfiles)
           /\ log' = IF si = 1
                      THEN Append(log, [job |-> di, depth |-> depths[di],
                                        stage |-> "filter", rc |-> 0])
                      ELSE log
           /\ IF rc # 0 THEN pc' = "aborted" /\ UNCHANGED << di, si >>
              ELSE IF si < Len(station_df) THEN pc' = pc /\ si' = si + 1 /\ di' = di
              ELSE pc' = "dfile" /\ si' = 0 /\ di' = di + 1
  /\ UNCHANGED << df, station_df, obsVars, depths, npts, engVars, headers >>

\* removal of the unfiltered files inside the loop, after each depth
CleanupEarly ==
  /\ pc = "dfile"
  /\ di > 1
  /\ log[Len(log)].stage # "cleanup"
  /\ bfiles' = <<>>
  /\ log' = Append(log, [job |-> 0, depth |-> 0, stage |-> "cleanup", rc |-> 0])
  /\ pc' = IF di > Len(depths) THEN "headers" ELSE pc
  /\ UNCHANGED << df, station_df, obsVars, loopVars, dfile, hspecdat, hspecgrn,
                  file96, green, failures, headers >>

\* os.system('rm B*.sac'), after the loop over the depths
Cleanup ==
  /\ pc = "dfile"
  /\ di > Len(depths)
  /\ bfiles' = <<>>
  /\ log' = Append(log, [job |-> 0, depth |-> 0, stage |-> "cleanup", rc |-> 0])
  /\ pc' = "headers"
  /\ UNCHANGED << df, station_df, obsVars, loopVars, dfile, hspecdat, hspecgrn,
                  file96, green, failures, headers >>

\* headers = dict(..., depth=','.join(['%.4f'%d for d in depths]), ...)
BuildHeaders ==
  /\ pc = "headers"
  /\ headers' = [k \in 1..Len(depths) |-> Fmt4f(depths[k])]
  /\ pc' = "done"
  /\ UNCHANGED << df, station_df, obsVars, loopVars, engVars, green, log, failures >>

Next ==
  \/ ReadTables \/ ReadTrace \/ FilterTaper \/ ConditionTrace
  \/ StartGreens \/ WriteDfile \/ Hprep \/ Hspec \/ Hpulse \/ F96tosac
  \/ FilterStation \/ Cleanup \/ BuildHeaders

Spec == Init /\ [][Next]_vars

\* ------------------------------------------------------------ properties
Abs(x) == IF x >= 0 THEN x ELSE -x

\* round((time_before + time_after) / target_interval) + 1
WindowSamples == PyRound(time_before + time_after, dt) + 1

\* C1: every trace written by the conditioning loop has exactly
\* round((time_before + time_after) / dt) + 1 = 231 samples, whatever the
\* start time and length of the recording it was made from.
C1_SampleCount ==
  \A name \in DOMAIN outfiles :
    /\ DLen(outfiles[name].data) = WindowSamples
    /\ DLen(outfiles[name].data) = 231

\* a written trace that holds recorded samples and zero fill
C1_Padded ==
  \E name \in DOMAIN outfiles :
    /\ \E k \in 1..Len(outfiles[name].data) : outfiles[name].data[k].v = 0
    /\ \E k \in 1..Len(outfiles[name].data) : outfiles[name].data[k].v # 0

\* C2: every file of green_dir is the band-pass filtered raw trace the demux
\* stage produced for the station, depth and component of its name, filtered
\* once and not rescaled; it does not come from an observed trace.
C2_FilteredSynthetic ==
  \A name \in DOMAIN green :
    \E k \in 1..Len(station_df), i \in 1..Len(depths), j \in 1..Len(greens) :
      /\ name = GreenName(station_df[k], depths[i], greens[j])
      /\ green[name].src = << "syn", Fmt0f(station_df[k].distance),
                              Fmt4f(depths[i]), greens[j] >>
      /\ green[name].nfilt = 1
      /\ green[name].scale = 1

Distinct(seq) == \A a, b \in 1..Len(seq) : a # b => seq[a] # seq[b]

\* C3: after an engine invocation of a depth returned non-zero, no later
\* stage of that depth is executed and no synthetic file of that depth exists
\* (stated for pairwise distinct depths).
C3_EngineFailureAborts ==
  Distinct(depths) =>
    \A i \in 1..Len(log) :
      log[i].rc # 0 =>
        /\ \A k \in (i + 1)..Len(log) : log[k].job # log[i].job
        /\ \A name \in DOMAIN green : name[4] # Fmt4f(log[i].depth)

RECURSIVE IsPow2(_)
IsPow2(n) == n >= 1 /\ (n = 1 \/ (n % 2 = 0 /\ IsPow2(n \div 2)))

\* C4: a distance file is written only when npts is a power of two.
C4_NptsValidated == dfile # <<>> => IsPow2(npts)

\* C5: the depth list contains the rounded catalog depth, is strictly
\* ascending, and the depth list of the manifest holds no depth twice.
C5_DepthSet ==
  depths # <<>> =>
    /\ \E k \in 1..Len(depths) : depths[k] = PyRound(df.depth10, 10)
    /\ \A k \in 1..(Len(depths) - 1) : depths[k] < depths[k + 1]
    /\ \A a, b \in 1..Len(headers) : a # b => headers[a] # headers[b]

\* C6: a complete run over D pairwise distinct depths and S stations
\* executes D depth jobs and leaves D x S x 10 files in green_dir.
C6_FileCount ==
  (pc = "done" /\ Distinct(depths)) =>
    /\ Cardinality({i \in 1..Len(log) : log[i].stage = "prepare"}) = Len(depths)
    /\ Cardinality(DOMAIN green) = Len(depths) * Len(station_df) * Len(greens)

\* a complete run of three distinct depths over two stations
C6_Complete ==
  /\ pc = "done" /\ Distinct(depths) /\ Len(depths) = 3
  /\ Len(station_df) = 2
  /\ Cardinality(DOMAIN green) = 60

\* C7: the reference time t1 of every written trace is the origin time when
\* vred is zero, and otherwise origin + dist / vred of the trace's own
\* distance, to the resolution of the clock.
C7_ReferenceTime ==
  \A name \in DOMAIN outfiles :
    LET t == outfiles[name]
    IN  /\ vred = 0 => t.t1 = df.origin
        /\ vred # 0 =>
             2 * Abs(vred * 100 * (t.t1 - df.origin) - t.dist * TicksPerSec)
               <= vred * 100

\* vred zero: two traces of different distances with the origin as reference
C7_ZeroVred ==
  /\ vred = 0
  /\ \E a, b \in DOMAIN outfiles :
       /\ outfiles[a].dist # outfiles[b].dist
       /\ outfiles[a].t1 = df.origin /\ outfiles[b].t1 = df.origin

\* the recording of a trace covers some part of its window
Overlaps(t) ==
  /\ t.span[1] <= t.t1 + time_after * TicksPerSec
  /\ t.span[2] >= t.t1 - time_before * TicksPerSec

\* C8: a file is written only for a trace whose recording covers some part
\* of the requested window.
C8_DataGap == \A name \in DOMAIN outfiles : Overlaps(outfiles[name])

Stages == <<"prepare", "spectrum", "pulse", "demux", "filter">>

\* C9 as stated: when a depth's Prepare starts, no unfiltered file of an
\* earlier depth exists.
C9_CleanupPerDepth == pc = "prepare" => DOMAIN bfiles = {}

\* C9 as amended: the stages of every depth run in the order prepare,
\* spectrum, pulse, demux, filter, none skipped or reordered, depth after
\* depth, and the cleanup runs once, after the filter stage of the last depth.
C9_StageOrder ==
  /\ \A i \in 1..Len(log) :
       IF log[i].stage = "cleanup"
         THEN i = Len(Stages) * Len(depths) + 1 /\ i = Len(log)
         ELSE /\ i <= Len(Stages) * Len(depths)
              /\ log[i].stage = Stages[((i - 1) % Len(Stages)) + 1]
              /\ log[i].job = ((i - 1) \div Len(Stages)) + 1
  /\ pc = "done" => Len(log) = Len(Stages) * Len(depths) + 1

\* the cleanup has run, after all the stages of three depths
C9_CleanedUp ==
  /\ Len(depths) = 3
  /\ Len(log) = Len(Stages) * Len(depths) + 1
  /\ log[Len(log)].stage = "cleanup"

\* C10: when the run has ended, every depth in whose job nothing failed has
\* all its files in green_dir, whatever happened in the other depths' jobs
\* (stated for pairwise distinct depths).
C10_DepthIsolation ==
  (pc \in {"done", "aborted"} /\ Distinct(depths)) =>
    \A j \in 1..Len(depths) :
      ( /\ \A i \in 1..Len(log) : log[i].job = j => log[i].rc = 0
        /\ ~(pc = "aborted" /\ di = j) )
      => \A k \in 1..Len(station_df), g \in 1..Len(greens) :
           GreenName(station_df[k], depths[j], greens[g]) \in DOMAIN green
====
